---- MODULE Spec2Model ----
(***************************************************************************)
(* Model of the Bitmap container of src/src/lib.rs: a fixed array of       *)
(* machine words with a cached population count.  The index type (u16 in   *)
(* the source) and the word type (u64 in the source) are modelled with     *)
(* narrower widths, 2^U16_BITS values and 2^WORD_SHIFT bits per word; all  *)
(* the arithmetic of the source is kept, only the widths are smaller.      *)
(***************************************************************************)
EXTENDS Integers, Sequences, FiniteSets

\* ---------------------------------------------------------------- bounds
\* width in bits of the index type (16 for the u16 of the source)
U16_BITS == 3
\* log2 of the width of a Word (6 for the u64 of the source)
WORD_SHIFT == 1
\* most insert and remove calls made on one bitmap
MaxOps == 4
\* most insert and remove calls made on a pair of bitmaps
MaxPairOps == 2
\* longest sequence of values given to from_iter
MaxLen == 3

\* ------------------------------------------------------ program constants
\* width of one u8 element of a vector register
U8_BITS == 8
\* number of Words one 128-bit vector register holds (uint64x2_t)
LANE_WORDS == 2

RECURSIVE Pow2(_)
Pow2(n) == IF n = 0 THEN 1 ELSE 2 * Pow2(n - 1)

U16_MAX == Pow2(U16_BITS) - 1
WORD_BITS == Pow2(WORD_SHIFT)
WORD_MAX == Pow2(WORD_BITS) - 1
U8_MOD == Pow2(U8_BITS)

BITMAP_SIZE == (U16_MAX + 1) \div WORD_BITS

U16 == 0..U16_MAX
StoreIdx == 0..(BITMAP_SIZE - 1)

\* ------------------------------------------- machine-word bit arithmetic
\* a & b on n-bit operands
RECURSIVE AndBits(_, _, _)
AndBits(a, b, n) ==
    IF n = 0 THEN 0
    ELSE (IF a % 2 = 1 /\ b % 2 = 1 THEN 1 ELSE 0)
         + 2 * AndBits(a \div 2, b \div 2, n - 1)

\* a | b on n-bit operands
RECURSIVE OrBits(_, _, _)
OrBits(a, b, n) ==
    IF n = 0 THEN 0
    ELSE (IF a % 2 = 1 \/ b % 2 = 1 THEN 1 ELSE 0)
         + 2 * OrBits(a \div 2, b \div 2, n - 1)

\* a ^ b on n-bit operands
RECURSIVE XorBits(_, _, _)
XorBits(a, b, n) ==
    IF n = 0 THEN 0
    ELSE (IF a % 2 # b % 2 THEN 1 ELSE 0)
         + 2 * XorBits(a \div 2, b \div 2, n - 1)

\* the values of a Word
Word == 0..WORD_MAX

\* &, | and ^ of two Words, tabulated once over all pairs of Words
AndTable == [a \in Word |-> [b \in Word |-> AndBits(a, b, WORD_BITS)]]
OrTable == [a \in Word |-> [b \in Word |-> OrBits(a, b, WORD_BITS)]]
XorTable == [a \in Word |-> [b \in Word |-> XorBits(a, b, WORD_BITS)]]

WAnd(a, b) == AndTable[a][b]
WOr(a, b) == OrTable[a][b]
WXor(a, b) == XorTable[a][b]
\* !a on a Word
WNot(a) == WORD_MAX - a
\* a << n on a Word, n < WORD_BITS: the bits shifted out are lost
Shl(a, n) == (a * Pow2(n)) % (WORD_MAX + 1)
\* a >> n on a Word
Shr(a, n) == a \div Pow2(n)

\* number of one bits of an n-bit operand
RECURSIVE CountBits(_, _)
CountBits(a, n) ==
    IF n = 0 THEN 0 ELSE (a % 2) + CountBits(a \div 2, n - 1)

\* count_ones of a Word, tabulated once over all Words
CountTable == [a \in Word |-> CountBits(a, WORD_BITS)]

count_ones(w) == CountTable[w]

\* ----------------------------------------------------------- the Bitmap
new == [len |-> 0, store |-> [i \in StoreIdx |-> 0]]

full == [len |-> U16_MAX + 1, store |-> [i \in StoreIdx |-> WORD_MAX]]

len(self) == self.len

is_empty(self) == len(self) = 0

internal_store(self) == self.store

key(index) == index \div WORD_BITS

bit(index) == index % WORD_BITS

\* insert with the count raised on every call, present or not
insert_counts_every_call(self, value) ==
    LET old_w == self.store[key(value)]
        new_w == WOr(old_w, Shl(1, bit(value)))
    IN  [self |-> [len |-> self.len + 1,
                   store |-> [self.store EXCEPT ![key(value)] = new_w]],
         ret |-> old_w # new_w]

\* insert with `(old_w | 1) << bit` for `old_w | 1 << bit`
insert_shifts_word(self, value) ==
    LET old_w == self.store[key(value)]
        new_w == Shl(WOr(old_w, 1), bit(value))
        inserted == Shr(WXor(old_w, new_w), bit(value))
    IN  [self |-> [len |-> self.len + inserted,
                   store |-> [self.store EXCEPT ![key(value)] = new_w]],
         ret |-> inserted # 0]

\* insert with `1 << bit` stored over the word, the old bits dropped
insert_overwrites_word(self, value) ==
    LET old_w == self.store[key(value)]
        new_w == Shl(1, bit(value))
        inserted == IF WAnd(old_w, new_w) = 0 THEN 1 ELSE 0
    IN  [self |-> [len |-> self.len + inserted,
                   store |-> [self.store EXCEPT ![key(value)] = new_w]],
         ret |-> inserted # 0]

\* insert: the bitmap after the call and the value the call returns
insert(self, value) ==
    LET old_w == self.store[key(value)]
        new_w == WOr(old_w, Shl(1, bit(value)))
        inserted == Shr(WXor(old_w, new_w), bit(value))
    IN  [self |-> [len |-> self.len + inserted,
                   store |-> [self.store EXCEPT ![key(value)] = new_w]],
         ret |-> inserted # 0]

\* remove with `old_w ^ (1 << bit)` for `old_w & !(1 << bit)`
remove_toggles(self, value) ==
    LET old_w == self.store[key(value)]
        new_w == WXor(old_w, Shl(1, bit(value)))
        removed == Shr(WXor(old_w, new_w), bit(value))
    IN  [self |-> [len |-> self.len - removed,
                   store |-> [self.store EXCEPT ![key(value)] = new_w]],
         ret |-> removed # 0]

\* remove: the bitmap after the call and the value the call returns
remove(self, value) ==
    LET old_w == self.store[key(value)]
        new_w == WAnd(old_w, WNot(Shl(1, bit(value))))
        removed == Shr(WXor(old_w, new_w), bit(value))
    IN  [self |-> [len |-> self.len - removed,
                   store |-> [self.store EXCEPT ![key(value)] = new_w]],
         ret |-> removed # 0]

contains(self, index) ==
    WAnd(self.store[key(index)], Shl(1, bit(index))) # 0

\* the loop of intersection from word `index` on: the store and the count
RECURSIVE IntersectionLoop(_, _, _, _)
IntersectionLoop(store, other, index, count) ==
    IF index = BITMAP_SIZE THEN [store |-> store, count |-> count]
    ELSE LET w == WAnd(store[index], other.store[index])
         IN  IntersectionLoop([store EXCEPT ![index] = w], other,
                              index + 1, count + count_ones(w))

\* intersection without `self.len = count`
intersection_keeps_len(self, other) ==
    [len |-> self.len,
     store |-> IntersectionLoop(self.store, other, 0, 0).store]

intersection(self, other) ==
    LET r == IntersectionLoop(self.store, other, 0, 0)
    IN  [len |-> r.count, store |-> r.store]

\* ------------------------------------------------ vector intrinsics
\* number of u8 elements the lane of LANE_WORDS Words is reinterpreted as
LANE_BYTES == (LANE_WORDS * WORD_BITS + U8_BITS - 1) \div U8_BITS

\* vld1q_u64: load the Words at ptr and ptr + 1 into a register
vld1q_u64(store, ptr) == [i \in 1..LANE_WORDS |-> store[ptr + i - 1]]

\* vandq_u64: element-wise and of two registers
vandq_u64(a, b) == [i \in 1..LANE_WORDS |-> WAnd(a[i], b[i])]

\* a store of the low Word of the register only
vst1q_u64_low(store, ptr, lane) == [store EXCEPT ![ptr] = lane[1]]

\* vst1q_u64: store the register into the Words at ptr and ptr + 1
vst1q_u64(store, ptr, lane) ==
    [i \in StoreIdx |->
        IF i >= ptr /\ i < ptr + LANE_WORDS THEN lane[i - ptr + 1] ELSE store[i]]

\* the register as one little-endian number
RECURSIVE LaneValue(_, _)
LaneValue(lane, i) ==
    IF i > LANE_WORDS THEN 0
    ELSE lane[i] + (WORD_MAX + 1) * LaneValue(lane, i + 1)

\* vreinterpretq_u8_u64: the same register seen as u8 elements
vreinterpretq_u8_u64(lane) ==
    [k \in 1..LANE_BYTES |->
        (LaneValue(lane, 1) \div Pow2(U8_BITS * (k - 1))) % U8_MOD]

\* vcntq_u8: population count of each u8 element
vcntq_u8(bytes) == [k \in 1..LANE_BYTES |-> CountBits(bytes[k], U8_BITS)]

RECURSIVE SumBytes(_, _)
SumBytes(bytes, k) ==
    IF k > LANE_BYTES THEN 0 ELSE bytes[k] + SumBytes(bytes, k + 1)

\* vaddvq_u8: sum of the u8 elements, as a u8
vaddvq_u8(bytes) == SumBytes(bytes, 1) % U8_MOD

\* the loop of intersection_simd: `n` iterations left, left and right at
\* the Word both pointers have advanced to
RECURSIVE IntersectionSimdLoop(_, _, _, _, _)
IntersectionSimdLoop(store, other, ptr, n, count) ==
    IF n = 0 THEN [store |-> store, count |-> count]
    ELSE LET left_lane == vld1q_u64(store, ptr)
             right_lane == vld1q_u64(other.store, ptr)
             ret == vandq_u64(left_lane, right_lane)
             p8_count == vaddvq_u8(vcntq_u8(vreinterpretq_u8_u64(ret)))
         IN  IntersectionSimdLoop(vst1q_u64(store, ptr, ret), other,
                                  ptr + 2, n - 1, count + p8_count)

intersection_simd(self, other) ==
    LET r == IntersectionSimdLoop(self.store, other, 0, BITMAP_SIZE \div 2, 0)
    IN  [len |-> r.count, store |-> r.store]

\* ------------------------------------------------------------- to_vec
saturating_add(a, b) == IF a + b > U16_MAX THEN U16_MAX ELSE a + b

\* the inner loop of to_vec over the bits of one Word, `n` iterations left
RECURSIVE ToVecWord(_, _, _, _)
ToVecWord(current, current_idx, word, n) ==
    IF n = 0 THEN [word |-> word, current_idx |-> current_idx]
    ELSE ToVecWord(Shr(current, 1),
                   saturating_add(current_idx, 1),
                   IF WAnd(current, 1) = 1 THEN Append(word, current_idx) ELSE word,
                   n - 1)

\* a break one value early
ToVecBreakEarly(self, ret) == Len(ret) + 1 >= self.len

\* no break
ToVecBreakNever(self, ret) == FALSE

\* `if ret.len() == self.len { break; }`
ToVecBreak(self, ret) == Len(ret) = self.len

\* the outer loop of to_vec from Word `index` on.  overflow records that
\* `current_idx += Word::BITS` left the range of u16: a build with overflow
\* checks panics there, a build without them wraps.
RECURSIVE ToVecLoop(_, _, _, _, _)
ToVecLoop(self, index, ret, current_idx, overflow) ==
    IF index = BITMAP_SIZE
    THEN [ret |-> ret, overflow |-> overflow, current_idx |-> current_idx]
    ELSE LET current == self.store[index]
             w == ToVecWord(current, current_idx, <<>>, WORD_BITS)
             nonzero == count_ones(current) # 0
             ret2 == IF nonzero THEN ret \o w.word ELSE ret
             idx2 == IF nonzero THEN w.current_idx
                     ELSE (current_idx + WORD_BITS) % (U16_MAX + 1)
             ovf2 == overflow \/ (~nonzero /\ current_idx + WORD_BITS > U16_MAX)
         IN  IF ToVecBreak(self, ret2)
             THEN [ret |-> ret2, overflow |-> ovf2, current_idx |-> idx2]
             ELSE ToVecLoop(self, index + 1, ret2, idx2, ovf2)

\* to_vec: the Vec returned, whether the index cursor overflowed, and the
\* cursor when the scan stopped
to_vec(self) == ToVecLoop(self, 0, <<>>, 0, FALSE)

\* ------------------------------------------------------ trait impls
RECURSIVE FromIterLoop(_, _, _)
FromIterLoop(bitmap, iter, i) ==
    IF i > Len(iter) THEN bitmap
    ELSE FromIterLoop(insert(bitmap, iter[i]).self, iter, i + 1)

\* impl FromIterator<u16> for Bitmap
from_iter(iter) == FromIterLoop(new, iter, 1)

\* Iterator::copied: the values behind the references
copied(iter) == [i \in DOMAIN iter |-> iter[i]]

\* impl FromIterator<&u16> for Bitmap
from_iter_ref(iter) == FromIterLoop(new, copied(iter), 1)

eq(self, other) ==
    len(self) = len(other) /\ internal_store(self) = internal_store(other)

RECURSIVE BitOrLoop(_, _, _, _)
BitOrLoop(store, rhs, index, count) ==
    IF index = BITMAP_SIZE THEN [store |-> store, count |-> count]
    ELSE LET w == WOr(store[index], rhs.store[index])
         IN  BitOrLoop([store EXCEPT ![index] = w], rhs,
                       index + 1, count + count_ones(w))

\* a union whose count is the sum of the two counts
bitor_ref_adds_len(self, rhs) ==
    [len |-> self.len + rhs.len,
     store |-> BitOrLoop(self.store, rhs, 0, 0).store]

\* impl BitOr<&Bitmap> for Bitmap
bitor_ref(self, rhs) ==
    LET r == BitOrLoop(self.store, rhs, 0, 0)
    IN  [len |-> r.count, store |-> r.store]

\* impl BitOr for Bitmap
bitor(self, rhs) == bitor_ref(self, rhs)

\* impl BitAnd<&Bitmap> for Bitmap
bitand_ref(self, rhs) == intersection(self, rhs)

\* impl BitAnd for Bitmap
bitand(self, rhs) == bitand_ref(self, rhs)

default == new
\* ------------------------------------------------------ state machine
\* bitmap, other : two Bitmap values (`left` and `right` of the tests)
\* op, value : the last call and its u16 argument
\* before  : bitmap as it was before the last call
\* ret     : what the last insert or remove returned
\* vec, overflow, cursor : what the last to_vec returned, whether its index
\*           cursor overflowed, and where the cursor stopped
\* steps   : number of insert and remove calls made so far
\* indexes, pos, iter : the sequence being inserted value by value, how far
\*           it has been inserted, and the sequence given to from_iter
VARIABLES bitmap, other, op, value, before, ret, vec, overflow, cursor,
          steps, indexes, pos, iter

vars == <<bitmap, other, op, value, before, ret, vec, overflow, cursor,
          steps, indexes, pos, iter>>

\* the record of the last call
Called(name, v, self, r) ==
    /\ op' = name
    /\ value' = v
    /\ before' = self
    /\ ret' = r
    /\ vec' = <<>>
    /\ overflow' = FALSE
    /\ cursor' = 0

Init ==
    /\ bitmap \in {new, full}
    /\ other \in {new, full}
    /\ op = "init"
    /\ value = 0
    /\ before = bitmap
    /\ ret = FALSE
    /\ vec = <<>>
    /\ overflow = FALSE
    /\ cursor = 0
    /\ steps = 0
    /\ indexes = <<>>
    /\ pos = 0
    /\ iter = <<>>

\* bitmap.insert(v), one of at most `limit` insert and remove calls
Insert(v, limit) ==
    LET r == insert(bitmap, v)
    IN  /\ steps < limit
        /\ bitmap' = r.self
        /\ Called("insert", v, bitmap, r.ret)
        /\ steps' = steps + 1
        /\ UNCHANGED <<other, indexes, pos, iter>>

\* bitmap.remove(v), one of at most `limit` insert and remove calls
Remove(v, limit) ==
    LET r == remove(bitmap, v)
    IN  /\ steps < limit
        /\ bitmap' = r.self
        /\ Called("remove", v, bitmap, r.ret)
        /\ steps' = steps + 1
        /\ UNCHANGED <<other, indexes, pos, iter>>

\* other.insert(v): the right-hand operand is built; the result is dropped
OtherInsert(v) ==
    /\ steps < MaxPairOps
    /\ other' = insert(other, v).self
    /\ Called("other", 0, bitmap, FALSE)
    /\ steps' = steps + 1
    /\ UNCHANGED <<bitmap, indexes, pos, iter>>

\* other.remove(v): the right-hand operand is built; the result is dropped
OtherRemove(v) ==
    /\ steps < MaxPairOps
    /\ other' = remove(other, v).self
    /\ Called("other", 0, bitmap, FALSE)
    /\ steps' = steps + 1
    /\ UNCHANGED <<bitmap, indexes, pos, iter>>

\* bitmap.intersection(&other)
Intersection ==
    /\ bitmap' = intersection(bitmap, other)
    /\ Called("intersection", 0, bitmap, FALSE)
    /\ UNCHANGED <<other, steps, indexes, pos, iter>>

\* bitmap.intersection_simd(&other)
IntersectionSimd ==
    /\ bitmap' = intersection_simd(bitmap, other)
    /\ Called("intersection_simd", 0, bitmap, FALSE)
    /\ UNCHANGED <<other, steps, indexes, pos, iter>>

\* bitmap = bitmap | other
BitOr ==
    /\ bitmap' = bitor(bitmap, other)
    /\ Called("bitor", 0, bitmap, FALSE)
    /\ UNCHANGED <<other, steps, indexes, pos, iter>>

\* bitmap = bitmap & other
BitAnd ==
    /\ bitmap' = bitand(bitmap, other)
    /\ Called("bitand", 0, bitmap, FALSE)
    /\ UNCHANGED <<other, steps, indexes, pos, iter>>

\* bitmap.to_vec()
ToVec ==
    LET r == to_vec(bitmap)
    IN  /\ op' = "to_vec"
        /\ value' = 0
        /\ before' = bitmap
        /\ ret' = FALSE
        /\ vec' = r.ret
        /\ overflow' = r.overflow
        /\ cursor' = r.current_idx
        /\ UNCHANGED <<bitmap, other, steps, indexes, pos, iter>>

\* Two bitmaps and every operation
Next ==
    \/ \E v \in U16 : Insert(v, MaxPairOps)
    \/ \E v \in U16 : Remove(v, MaxPairOps)
    \/ \E v \in U16 : OtherInsert(v)
    \/ \E v \in U16 : OtherRemove(v)
    \/ Intersection
    \/ IntersectionSimd
    \/ BitOr
    \/ BitAnd
    \/ ToVec

Spec == Init /\ [][Next]_vars

\* One bitmap, built and taken apart value by value, and decoded
NextOne ==
    \/ \E v \in U16 : Insert(v, MaxOps)
    \/ \E v \in U16 : Remove(v, MaxOps)
    \/ ToVec

InitOne == Init /\ other = new

SpecOne == InitOne /\ [][NextOne]_vars
\* --------------------------------------- from_iter against repeated insert
\* the sequences of at most n values
SeqsUpTo(n) == UNION {[1..k -> U16] : k \in 0..n}

\* the rearrangements of the sequence s
Permutations(s) ==
    LET n == Len(s)
        bij == {f \in [1..n -> 1..n] : \A i, j \in 1..n : f[i] = f[j] => i = j}
    IN  {[i \in 1..n |-> s[f[i]]] : f \in bij}

InitIter ==
    /\ indexes \in SeqsUpTo(MaxLen)
    /\ bitmap = new
    /\ other = new
    /\ op = "init"
    /\ value = 0
    /\ before = bitmap
    /\ ret = FALSE
    /\ vec = <<>>
    /\ overflow = FALSE
    /\ cursor = 0
    /\ steps = 0
    /\ pos = 0
    /\ iter = <<>>

\* for i in &indexes { bitmap.insert(*i) }: one turn of the loop
IterInsert ==
    LET r == insert(bitmap, indexes[pos + 1])
    IN  /\ pos < Len(indexes)
        /\ bitmap' = r.self
        /\ pos' = pos + 1
        /\ Called("insert", indexes[pos + 1], bitmap, r.ret)
        /\ UNCHANGED <<other, steps, indexes, iter>>

\* other = Bitmap::from_iter(p) or Bitmap::from_iter(&p), p the inserted
\* values in some order; built once, after the last insert
FromIter ==
    /\ pos = Len(indexes)
    /\ op # "from_iter"
    /\ \E p \in Permutations(indexes) :
          /\ other' \in {from_iter(p), from_iter_ref(p)}
          /\ iter' = p
    /\ Called("from_iter", 0, bitmap, FALSE)
    /\ UNCHANGED <<bitmap, steps, indexes, pos>>

NextIter ==
    \/ IterInsert
    \/ FromIter

SpecIter == InitIter /\ [][NextIter]_vars

\* ------------------------------------------------------------ properties
\* bit v of the store, by the layout of the data model: bit v % WORD_BITS
\* of Word v / WORD_BITS
BitSet(store, v) == (store[v \div WORD_BITS] \div Pow2(v % WORD_BITS)) % 2 = 1

\* total number of set bits of the store
Popcount(store) == Cardinality({v \in U16 : BitSet(store, v)})

\* the values contains answers true for
Contained(self) == {v \in U16 : contains(self, v)}

Range(s) == {s[i] : i \in DOMAIN s}

StrictlyAscending(s) == \A i \in 1..(Len(s) - 1) : s[i] < s[i + 1]

\* the members of S in ascending order
RECURSIVE SortedSeq(_)
SortedSeq(S) ==
    IF S = {} THEN <<>>
    ELSE LET m == CHOOSE x \in S : \A y \in S : x <= y
         IN  <<m>> \o SortedSeq(S \ {m})

\* C1: in every state reached from new() or full() by insert, remove,
\* intersection, intersection_simd, | and &, the cached len of a bitmap is
\* the number of set bits of its store.
CachedLenIsPopcount ==
    /\ bitmap.len = Popcount(bitmap.store)
    /\ other.len = Popcount(other.store)

\* a full bitmap less one value, intersected with a singleton of another
CachedLenWitness ==
    /\ op = "intersection"
    /\ before.len = U16_MAX
    /\ other.len = 1
    /\ bitmap.len = 1

\* C2: insert(v) returns true exactly when v was present before the call.
InsertReturnsAlreadyPresent ==
    op = "insert" => (ret <=> contains(before, value))

\* C3: intersection_simd leaves the store and the len that the scalar
\* intersection leaves on the same two bitmaps.
SimdMatchesScalar ==
    op = "intersection_simd" =>
        /\ bitmap.store = intersection(before, other).store
        /\ bitmap.len = intersection(before, other).len

\* singletons in different Words of different lanes ({128} and {0} at the
\* widths of the source)
SimdWitness ==
    /\ op = "intersection_simd"
    /\ before = from_iter(<<LANE_WORDS * WORD_BITS>>)
    /\ other = from_iter(<<0>>)
    /\ bitmap = new

\* C4: A & B has v as a member exactly when A and B both have it; its
\* to_vec is the sorted intersection of the two to_vec, and its len the
\* size of that intersection.
BitAndIsIntersection ==
    op = "bitand" =>
        LET both == Range(to_vec(before).ret) \cap Range(to_vec(other).ret)
        IN  /\ \A v \in U16 :
                  contains(bitmap, v) <=> (contains(before, v) /\ contains(other, v))
            /\ to_vec(bitmap).ret = SortedSeq(both)
            /\ len(bitmap) = Cardinality(both)

\* two bitmaps that each lack one value of the universe, a different one
BitAndWitness ==
    /\ op = "bitand"
    /\ before.len = U16_MAX
    /\ other.len = U16_MAX
    /\ bitmap.len = U16_MAX - 1

\* C5: A | B has v as a member exactly when A or B has it; its to_vec is
\* the sorted union of the two to_vec, and its len the size of that union.
BitOrIsUnion ==
    op = "bitor" =>
        LET either == Range(to_vec(before).ret) \cup Range(to_vec(other).ret)
        IN  /\ \A v \in U16 :
                  contains(bitmap, v) <=> (contains(before, v) \/ contains(other, v))
            /\ to_vec(bitmap).ret = SortedSeq(either)
            /\ len(bitmap) = Cardinality(either)

\* the union of two different singletons
BitOrWitness ==
    /\ op = "bitor"
    /\ before.len = 1
    /\ other.len = 1
    /\ bitmap.len = 2

\* C6: to_vec returns exactly the values contains is true for, each once,
\* in strictly ascending order, so as many as len; the early break drops
\* no member.
ToVecListsMembers ==
    op = "to_vec" =>
        /\ Range(vec) = Contained(bitmap)
        /\ StrictlyAscending(vec)
        /\ Len(vec) = len(bitmap)

\* three members after a zero Word and before a zero last Word: the scan
\* skips the first and breaks before the last
ToVecWitness ==
    /\ op = "to_vec"
    /\ Len(vec) = 3
    /\ bitmap.store[0] = 0
    /\ bitmap.store[BITMAP_SIZE - 1] = 0

\* C7: after insert(v) the members are the members before plus v, and len
\* is one more if v was absent and the same if it was present.
InsertAddsExactlyValue ==
    op = "insert" =>
        /\ contains(bitmap, value)
        /\ \A w \in U16 \ {value} : contains(bitmap, w) <=> contains(before, w)
        /\ len(bitmap) = len(before) + (IF contains(before, value) THEN 0 ELSE 1)

\* the largest value inserted into a bitmap that holds 0 and not it
InsertWitness ==
    /\ op = "insert"
    /\ value = U16_MAX
    /\ contains(before, 0)
    /\ ~contains(before, U16_MAX)
    /\ len(bitmap) = len(before) + 1

\* C8: remove(v) returns true exactly when v was present; afterwards v is
\* absent, every other value is as before, and len is one less if v was
\* present and the same otherwise.
RemoveTakesExactlyValue ==
    op = "remove" =>
        /\ ret <=> contains(before, value)
        /\ ~contains(bitmap, value)
        /\ \A w \in U16 \ {value} : contains(bitmap, w) <=> contains(before, w)
        /\ len(bitmap) = len(before) - (IF contains(before, value) THEN 1 ELSE 0)

\* a second remove of the one value taken out of a full bitmap
RemoveWitness ==
    /\ op = "remove"
    /\ ~ret
    /\ before = bitmap
    /\ len(bitmap) = U16_MAX

\* C9: from_iter of a sequence equals (same len, same store) the bitmap
\* built from new() by insert of each value, whatever the order of the
\* sequence.
FromIterMatchesInserts ==
    op = "from_iter" => eq(bitmap, other)

\* three values, the first repeated last, given to from_iter in another
\* order
FromIterWitness ==
    /\ op = "from_iter"
    /\ Len(indexes) = 3
    /\ indexes[1] = indexes[3]
    /\ indexes[1] # indexes[2]
    /\ iter # indexes

\* C10: to_vec never overflows its cursor: the zero-Word branch is not run
\* on the last Word, and the increments on the last Word stop at the
\* largest value.
ToVecCursorInRange ==
    op = "to_vec" =>
        /\ ~overflow
        /\ cursor <= U16_MAX
        /\ bitmap.store[BITMAP_SIZE - 1] # 0 => cursor = U16_MAX

\* the bitmap whose only member is the largest value
ToVecCursorWitness ==
    /\ op = "to_vec"
    /\ vec = <<U16_MAX>>
    /\ cursor = U16_MAX
====
